---- MODULE Spec2Model ----
(***************************************************************************)
(* Token sale, readiness gate and profit distribution of the backend:      *)
(*   TokenController.purchaseTokens      (controllers/tokenController)     *)
(*   ProfitController.distributeProfit   (controllers/profitController)    *)
(*   ProfitService.distributeProfit      (services/profitService)          *)
(*   ProjectService / ProjectController  (status update, readiness)        *)
(*   BlockchainService                   (external ledger adapter)         *)
(*                                                                         *)
(* The relational store is MySQL/InnoDB under its default isolation level  *)
(* (REPEATABLE READ): a plain SELECT inside a transaction is a non-locking *)
(* read of the snapshot taken at the transaction's first read, an UPDATE   *)
(* works on the latest committed row and holds an exclusive row lock until *)
(* commit or rollback, uncommitted writes are invisible to other           *)
(* connections, and a rollback discards them.  Numbers are JavaScript      *)
(* numbers: IEEE-754 binary64, rounded to nearest, ties to even.           *)
(***************************************************************************)
EXTENDS Integers, Sequences, FiniteSets, Bags, TLC

(***************************************************************************)
(* Arbitrary-size naturals.  TLC integers are 32-bit, a binary64 mantissa  *)
(* has 53 bits: a natural is a little-endian sequence of 12-bit limbs      *)
(* without leading (most significant) zero limbs; zero is << >>.           *)
(***************************************************************************)
LimbBits == 12

LimbBase == 2 ^ LimbBits

\* Every operator below computes each of its operands once: an operand
\* that is used several times is bound by  v \in {operand}.

RECURSIVE BigTrim(_, _)
\* the first n limbs of b, without the leading zero limbs
BigTrim(b, n) ==
  IF n = 0 THEN << >>
  ELSE IF b[n] = 0 THEN BigTrim(b, n - 1)
  ELSE SubSeq(b, 1, n)

BigNorm(b) == CHOOSE r \in {BigTrim(v, Len(v)) : v \in {b}} : TRUE

RECURSIVE BigFromInt(_)
BigFromInt(n) ==
  IF n = 0 THEN << >>
  ELSE <<n % LimbBase>> \o BigFromInt(n \div LimbBase)

Limb(b, i) == IF i <= Len(b) THEN b[i] ELSE 0

RECURSIVE BigMulCarry(_, _, _)
BigMulCarry(b, k, carry) ==
  IF b = << >> THEN BigFromInt(carry)
  ELSE CHOOSE r \in
         {<<t % LimbBase>> \o BigMulCarry(rest, k, t \div LimbBase) :
            t \in {Head(b) * k + carry}, rest \in {Tail(b)}} : TRUE

\* b * k for a small natural k (k < 2^18 keeps every product in 32 bits)
BigMulSmall(b, k) ==
  CHOOSE r \in {BigNorm(BigMulCarry(v, kv, 0)) : v \in {b}, kv \in {k}} : TRUE

RECURSIVE BigAddCarry(_, _, _)
BigAddCarry(a, b, carry) ==
  IF a = << >> /\ b = << >> THEN BigFromInt(carry)
  ELSE CHOOSE r \in
         {<<t % LimbBase>> \o BigAddCarry(ra, rb, t \div LimbBase) :
            t \in {Limb(a, 1) + Limb(b, 1) + carry},
            ra \in {IF a = << >> THEN << >> ELSE Tail(a)},
            rb \in {IF b = << >> THEN << >> ELSE Tail(b)}} : TRUE

BigAdd(a, b) ==
  CHOOSE r \in {BigNorm(BigAddCarry(x, y, 0)) : x \in {a}, y \in {b}} : TRUE

RECURSIVE BigSubBorrow(_, _, _)
BigSubBorrow(a, b, borrow) ==
  IF a = << >> THEN << >>
  ELSE CHOOSE r \in
         {IF t < 0
          THEN <<t + LimbBase>> \o BigSubBorrow(ra, rb, 1)
          ELSE <<t>> \o BigSubBorrow(ra, rb, 0) :
            t \in {Head(a) - Limb(b, 1) - borrow},
            ra \in {Tail(a)},
            rb \in {IF b = << >> THEN << >> ELSE Tail(b)}} : TRUE

\* a - b, for a >= b
BigSub(a, b) ==
  CHOOSE r \in {BigNorm(BigSubBorrow(x, y, 0)) : x \in {a}, y \in {b}} : TRUE

RECURSIVE BigCmpFrom(_, _, _)
BigCmpFrom(a, b, i) ==
  IF i = 0 THEN 0
  ELSE IF a[i] < b[i] THEN -1
  ELSE IF a[i] > b[i] THEN 1
  ELSE BigCmpFrom(a, b, i - 1)

\* -1, 0, 1 as a < b, a = b, a > b (both normalised)
BigCmp(a, b) ==
  CHOOSE r \in {IF Len(x) < Len(y) THEN -1
                ELSE IF Len(x) > Len(y) THEN 1
                ELSE BigCmpFrom(x, y, Len(x)) : x \in {a}, y \in {b}} : TRUE

RECURSIVE IntBitLen(_)
IntBitLen(n) == IF n = 0 THEN 0 ELSE 1 + IntBitLen(n \div 2)

BigBitLen(b) ==
  CHOOSE r \in {IF v = << >> THEN 0
                ELSE (Len(v) - 1) * LimbBits + IntBitLen(v[Len(v)]) :
                  v \in {b}} : TRUE

RECURSIVE Zeros(_)
\* n zero limbs
Zeros(n) == IF n = 0 THEN << >> ELSE <<0>> \o Zeros(n - 1)

\* b * 2^s
BigShl(b, s) ==
  CHOOSE r \in {IF v = << >> THEN << >>
                ELSE Zeros(sv \div LimbBits)
                       \o BigMulSmall(v, 2 ^ (sv % LimbBits)) :
                  v \in {b}, sv \in {s}} : TRUE

RECURSIVE BigShrFrom(_, _, _, _, _)
\* the limbs i..n of floor(b / 2^(q * LimbBits + r))
BigShrFrom(b, q, r, i, n) ==
  IF i > n THEN << >>
  ELSE <<(b[q + i] \div (2 ^ r))
         + (Limb(b, q + i + 1) % (2 ^ r)) * (2 ^ (LimbBits - r))>>
       \o BigShrFrom(b, q, r, i + 1, n)

\* floor(b / 2^s)
BigShr(b, s) ==
  CHOOSE r \in {IF Len(v) - q <= 0 THEN << >>
                ELSE BigNorm(BigShrFrom(v, q, sv % LimbBits, 1, Len(v) - q)) :
                  v \in {b}, sv \in {s}, q \in {s \div LimbBits}} : TRUE

\* b mod 2^s
BigLow(b, s) ==
  CHOOSE r \in {BigSub(v, BigShl(BigShr(v, sv), sv)) :
                  v \in {b}, sv \in {s}} : TRUE

RECURSIVE BigDivFrom(_, _, _, _)
BigDivFrom(b, k, i, rem) ==
  \* long division of the limbs i..1 of b by a small k, most significant
  \* limb first, rem the remainder carried in
  IF i = 0 THEN [q |-> << >>, r |-> rem]
  ELSE CHOOSE d \in
         UNION {{[q |-> rest.q \o <<cur \div k>>, r |-> rest.r] :
                   rest \in {BigDivFrom(b, k, i - 1, cur % k)}} :
                     cur \in {rem * LimbBase + b[i]}} : TRUE

\* [q |-> floor(b / k), r |-> b mod k] for a small natural k > 0
BigDivSmall(b, k) ==
  CHOOSE d \in {[q |-> BigNorm(x.q), r |-> x.r] :
                  x \in {BigDivFrom(v, kv, Len(v), 0) :
                           v \in {b}, kv \in {k}}} : TRUE

(***************************************************************************)
(* IEEE-754 binary64 (the JavaScript number type), positive finite values  *)
(* in the normal range: [m |-> mantissa, e |-> exponent] is m * 2^e with   *)
(* 2^52 <= m < 2^53; zero is [m |-> << >>, e |-> 0].                        *)
(***************************************************************************)
MantBits == 53

DZero == [m |-> << >>, e |-> 0]

\* the quotient q1 of 53 or 54 bits, with exponent e, as a binary64
RoundCarry(q1, e) ==
  IF BigBitLen(q1) > MantBits
  THEN [m |-> BigShr(q1, 1), e |-> e + 1]
  ELSE [m |-> q1, e |-> e]

\* q * 2^e with the s bits r cut off, rounded to nearest, ties to even
RoundQuotient(q, r, e, s, sticky) ==
  LET c == BigCmp(r, BigShl(<<1>>, s - 1))
      odd == Limb(q, 1) % 2 = 1
      up == c > 0 \/ (c = 0 /\ (sticky \/ odd))
  IN  CHOOSE d \in {RoundCarry(q1, e) :
                      q1 \in {IF up THEN BigAdd(q, <<1>>) ELSE q}} : TRUE

\* m * 2^e, m # 0, with its s = BigBitLen(m) - MantBits low bits cut off
RoundShift(m, e, s, sticky) ==
  IF s <= 0 THEN [m |-> BigShl(m, 0 - s), e |-> e + s]
  ELSE CHOOSE d \in {RoundQuotient(q, r, e + s, s, sticky) :
                       q \in {BigShr(m, s)}, r \in {BigLow(m, s)}} : TRUE

\* round m * 2^e (plus, when sticky, a positive amount below one unit of
\* m) to the nearest binary64, ties to even; each intermediate value is
\* computed once
RoundDouble(m, e, sticky) ==
  CHOOSE d \in {IF mv = << >> THEN DZero
                ELSE RoundShift(mv, e, BigBitLen(mv) - MantBits, sticky) :
                  mv \in {m}} : TRUE

\* the binary64 nearest to the integer n
DFromInt(n) == RoundDouble(BigFromInt(n), 0, FALSE)

\* JavaScript  k * a  for an integer-valued k and a binary64 a
DMulInt(a, k) ==
  CHOOSE d \in {RoundDouble(BigMulSmall(x.m, k), x.e, FALSE) : x \in {a}} : TRUE

\* JavaScript  a / k  for a binary64 a and an integer-valued k > 0
DDivInt(a, k) ==
  CHOOSE r \in
    {IF x.m = << >> THEN DZero
     ELSE CHOOSE y \in
            {RoundDouble(d.q, x.e - 2 * LimbBits, d.r # 0) :
               d \in {BigDivSmall(BigShl(x.m, 2 * LimbBits), k)}} : TRUE :
       x \in {a}} : TRUE

\* the exact value a * 2^(-e0) as a natural, for e0 <= a.e
DScaled(a, e0) ==
  CHOOSE r \in {BigShl(x.m, x.e - e0) : x \in {a}} : TRUE

MinInt(x, y) == IF x < y THEN x ELSE y

\* JavaScript  a + b
DAdd(a, b) ==
  CHOOSE r \in
    {IF x.m = << >> THEN y
     ELSE IF y.m = << >> THEN x
     ELSE RoundDouble(BigAdd(DScaled(x, MinInt(x.e, y.e)),
                             DScaled(y, MinInt(x.e, y.e))),
                      MinInt(x.e, y.e), FALSE) :
       x \in {a}, y \in {b}} : TRUE

\* a = b as numbers
DEq(a, b) ==
  CHOOSE r \in
    {\/ x.m = << >> /\ y.m = << >>
     \/ /\ x.m # << >>
        /\ y.m # << >>
        /\ DScaled(x, MinInt(x.e, y.e)) = DScaled(y, MinInt(x.e, y.e)) :
       x \in {a}, y \in {b}} : TRUE

\* the literals 0.30 and 0.70 as binary64
Double030 == [m |-> <<819, 819, 819, 819, 19>>, e |-> 0 - 54]

Double070 == [m |-> <<1638, 1638, 1638, 1638, 22>>, e |-> 0 - 53]

(***************************************************************************)
(* Bounds and input sets                                                   *)
(***************************************************************************)
TotalTokens == 2

MaxRequests == 3

TokenPrice == 10

ProjectIds == {"P1"}

UnknownProjectId == "PX"

AllProjectIds == ProjectIds \cup {UnknownProjectId}

UserOrder == <<"u1", "u2">>

Users == {UserOrder[i] : i \in DOMAIN UserOrder}

OwnerAdmin == "admin1"

Admins == {"admin1", "admin2"}

Amounts == 0..TotalTokens

NewProfits == {0, 3}

Statuses == {"active", "completed", "cancelled"}

NoRow == [status |-> "none"]

(***************************************************************************)
(* State                                                                   *)
(***************************************************************************)
VARIABLES
  projects,              \* table projects: project_id -> row (committed)
  tokens,                \* table tokens (holdings): bag of rows (committed)
  transactions,          \* table transactions: bag of rows (committed)
  profit_distributions,  \* table profit_distributions: set of rows (committed)
  user_profit_records,   \* table user_profit_records: bag of rows (committed)
  nextDistId,            \* AUTO_INCREMENT counter of profit_distributions.id
  ledger,                \* records included by the external ledger
  purchase,              \* purchaseTokens requests in flight: bag of frames
  distribute,            \* distributeProfit requests in flight: bag of frames
  requests,              \* number of requests received
  response,              \* the last response sent by a handler
  openReleased,          \* connections released to the pool with their
                         \* transaction still open: their number
  review                 \* approveTransaction and rejectTransaction
                         \* requests in flight: bag of frames

vars == <<projects, tokens, transactions, profit_distributions,
          user_profit_records, nextDistId, ledger, purchase, distribute,
          requests, response, openReleased, review>>

dbVars == <<projects, tokens, transactions, profit_distributions,
            user_profit_records>>

\* res.status(status).json({message, error})
Response(status, message, error) ==
  [status |-> status, message |-> message, error |-> error, data |-> << >>]

\* res.json({message, data})
ResponseData(message, data) ==
  [status |-> 200, message |-> message, error |-> "", data |-> data]

NoResponse == Response(0, "", "")

Init ==
  /\ projects = << >>
  /\ tokens = EmptyBag
  /\ transactions = EmptyBag
  /\ profit_distributions = {}
  /\ user_profit_records = EmptyBag
  /\ nextDistId = 1
  /\ ledger = << >>
  /\ purchase = EmptyBag
  /\ distribute = EmptyBag
  /\ requests = 0
  /\ response = NoResponse
  /\ openReleased = 0
  /\ review = EmptyBag

\* a request is received
Receive ==
  /\ requests < MaxRequests
  /\ requests' = requests + 1

One(x) == SetToBag({x})

(***************************************************************************)
(* Queries on the committed tables                                         *)
(***************************************************************************)
RECURSIVE SumOver(_, _)
SumOver(S, f) ==
  IF S = {} THEN 0
  ELSE LET x == CHOOSE y \in S : TRUE
       IN  f[x] + SumOver(S \ {x}, f)

ActiveTokens(tk, p) ==
  {r \in BagToSet(tk) : r.project_id = p /\ r.status = "active"}

\* SELECT SUM(amount) FROM tokens WHERE project_id = p AND status = 'active'
ActiveAmount(tk, p) ==
  SumOver(ActiveTokens(tk, p),
          [r \in ActiveTokens(tk, p) |-> CopiesIn(r, tk) * r.amount])

\* the users with an active holding in project p
Holders(tk, p) == {r.user_id : r \in ActiveTokens(tk, p)}

\* SUM(amount) of the active holdings of user u in project p
HolderAmount(tk, p, u) ==
  LET S == {r \in ActiveTokens(tk, p) : r.user_id = u}
  IN  SumOver(S, [r \in S |-> CopiesIn(r, tk) * r.amount])

\* the users of S in the order of the grouping key
SetToSeq(S) == SelectSeq(UserOrder, LAMBDA u : u \in S)

\* SELECT user_id, SUM(amount) as total_tokens FROM tokens
\*  WHERE project_id = p AND status = "active" GROUP BY user_id
SelectTokenHolders(tk, p) ==
  LET us == SetToSeq(Holders(tk, p))
  IN  [i \in 1..Len(us) |->
        [user_id |-> us[i], total_tokens |-> HolderAmount(tk, p, us[i])]]

\* ProjectService.isProjectReadyForDistribution: two autocommit reads
isProjectReadyForDistribution(pj, tk, p) ==
  IF p \notin DOMAIN pj
  THEN [ready |-> FALSE, reason |-> "Project not found",
        tokensSold |-> 0, totalTokens |-> 0, availableTokens |-> 0,
        tokenHolderCount |-> 0]
  ELSE LET project == pj[p]
           sold == project.total_tokens - project.available_tokens
           out(ok, why, n) ==
             [ready |-> ok, reason |-> why, tokensSold |-> sold,
              totalTokens |-> project.total_tokens,
              availableTokens |-> project.available_tokens,
              tokenHolderCount |-> n]
           holder_count == Cardinality(Holders(tk, p))
       IN  IF project.status = "completed"
           THEN out(FALSE, "Project is already completed", 0)
           ELSE IF project.status = "cancelled"
           THEN out(FALSE, "Project is cancelled", 0)
           ELSE IF project.available_tokens > 0
           THEN out(FALSE, "Cannot distribute profit until all tokens are sold", 0)
           ELSE IF holder_count = 0
           THEN out(FALSE, "No active token holders found for this project", 0)
           ELSE out(TRUE, "Project is ready for profit distribution",
                    holder_count)

(***************************************************************************)
(* Row locks.  A transaction holds the exclusive lock of every row it has  *)
(* inserted or updated until it commits or rolls back.                     *)
(***************************************************************************)
\* the projects row p is locked by a transaction in flight
ProjectLocked(p) ==
  \/ \E f \in BagToSet(purchase) : f.project_id = p /\ f.pc = "commit"
  \/ \E f \in BagToSet(distribute) : f.projectId = p /\ f.pc = "commit"

\* the profit_distributions ids that the transaction of frame f has
\* inserted, uncommitted
OwnInserted(f) ==
  IF f.pc \in {"addDividenProfit", "updateDistribution", "insertUserProfit",
               "updateProject", "commit"}
  THEN {f.insertedId} ELSE {}

\* the profit_distributions ids that the transaction of frame f has
\* updated, uncommitted
OwnUpdated(f) ==
  IF f.pc \in {"insertUserProfit", "updateProject", "commit"}
  THEN {f.updatedId} ELSE {}

\* ids of the rows of its project that a locking read of f sees: the
\* committed rows and its own
VisibleIds(f) ==
  {d.id : d \in {x \in profit_distributions : x.project_id = f.projectId}}
    \cup OwnInserted(f)

MaxOf(S) == CHOOSE x \in S : \A y \in S : y <= x

\* ... WHERE project_id = ? ORDER BY id DESC LIMIT 1, as a locking read
LatestDistributionId(f) == MaxOf(VisibleIds(f))

\* the descending scan of f meets a row locked by another transaction
\* before it reaches LatestDistributionId(f)
LatestDistributionBlocked(f) ==
  \E o \in BagToSet(distribute (-) One(f)) :
    /\ o.projectId = f.projectId
    /\ \/ \E i \in OwnInserted(o) : i > LatestDistributionId(f)
       \/ LatestDistributionId(f) \in OwnUpdated(o)

(***************************************************************************)
(* ProjectService.createProject                                            *)
(***************************************************************************)
CreateProject(p, total_tokens) ==
  /\ p \notin DOMAIN projects
  /\ projects' = [q \in DOMAIN projects \cup {p} |->
                   IF q = p
                   THEN [status |-> "active", total_tokens |-> total_tokens,
                         available_tokens |-> total_tokens,
                         token_price |-> TokenPrice, admin_id |-> OwnerAdmin]
                   ELSE projects[q]]
  /\ response' = Response(201, "Project created successfully", "")
  /\ UNCHANGED <<tokens, transactions, profit_distributions,
                 user_profit_records, nextDistId, ledger, purchase,
                 distribute, requests, openReleased, review>>

(***************************************************************************)
(* TokenController.purchaseTokens                                          *)
(***************************************************************************)
\* the validation with the comparison amount < 0
InvalidAmountBelowZero(amount) == amount < 0

\* the validation of the amount
InvalidAmount(amount) == amount = 0 \/ amount <= 0

\* SELECT * FROM projects WHERE project_id = ? AND status = "active"
SelectActiveProject(p) ==
  IF p \in DOMAIN projects /\ projects[p].status = "active"
  THEN projects[p] ELSE NoRow

\* the stock check, made against the size of the issue
InsufficientTokensOfTotal(project, amount) == project.total_tokens < amount

\* the stock check on the row read
InsufficientTokens(project, amount) == project.available_tokens < amount

\* the response of the validation and of the checks on the row read;
\* "" when the purchase goes on
PurchaseRejection(p, amount) ==
  IF InvalidAmount(amount) THEN "invalidAmount"
  ELSE IF SelectActiveProject(p) = NoRow THEN "notActive"
  ELSE IF InsufficientTokens(SelectActiveProject(p), amount)
  THEN "insufficient"
  ELSE ""

\* the response sent for a request refused by the validation or the checks
PurchaseRejectionResponse(rejection) ==
  IF rejection = "invalidAmount"
  THEN Response(400, "Invalid project_id or amount", "")
  ELSE IF rejection = "notActive"
  THEN Response(404, "Project not found or not active", "")
  ELSE Response(400, "Insufficient tokens available", "")

\* the handler returns after beginTransaction without commit or rollback:
\* finally releases the connection with the transaction open
ReturnsInTransaction(rejection) == rejection \in {"notActive", "insufficient"}

\* getConnection, request validation, beginTransaction, SELECT of the
\* project, stock check; on a refusal, finally: connection.release()
PurchaseStart(u, p, amount) ==
  /\ Receive
  /\ openReleased' =
       IF ReturnsInTransaction(PurchaseRejection(p, amount))
       THEN openReleased + 1 ELSE openReleased
  /\ response' =
       IF PurchaseRejection(p, amount) # ""
       THEN PurchaseRejectionResponse(PurchaseRejection(p, amount))
       ELSE response
  /\ purchase' =
       IF PurchaseRejection(p, amount) # "" THEN purchase
       ELSE purchase (+) One([pc |-> "createToken", user |-> u,
                              project_id |-> p, amount |-> amount,
                              project |-> SelectActiveProject(p),
                              hash |-> 0])
  /\ UNCHANGED <<dbVars, nextDistId, ledger, distribute, review>>

\* BlockchainService.createToken includes the record and returns its hash;
\* then INSERT INTO tokens (uncommitted)
PurchaseCreateToken(f) ==
  /\ f \in BagToSet(purchase)
  /\ f.pc = "createToken"
  /\ ledger' = Append(ledger, [kind |-> "token", projectId |-> f.project_id,
                               amount |-> f.amount])
  /\ purchase' = (purchase (-) One(f))
                   (+) One([f EXCEPT !.pc = "updateProject",
                                     !.hash = Len(ledger) + 1])
  /\ UNCHANGED <<dbVars, nextDistId, distribute, requests, response,
                 openReleased, review>>

\* UPDATE projects SET available_tokens = available_tokens - ?
\* waits for the row lock and keeps it; then INSERT INTO transactions
\* (uncommitted)
PurchaseUpdateProject(f) ==
  /\ f \in BagToSet(purchase)
  /\ f.pc = "updateProject"
  /\ ~ProjectLocked(f.project_id)
  /\ purchase' = (purchase (-) One(f)) (+) One([f EXCEPT !.pc = "commit"])
  /\ UNCHANGED <<dbVars, nextDistId, ledger, distribute, requests, response,
                 openReleased, review>>

TokenRow(f) ==
  [project_id |-> f.project_id, user_id |-> f.user, amount |-> f.amount,
   status |-> "active", blockchain_hash |-> f.hash]

\* the transaction record with the number of tokens as its value
TransactionRowOfAmount(f) ==
  [from_user_id |-> f.project.admin_id, to_user_id |-> f.user,
   project_id |-> f.project_id, token_amount |-> f.amount,
   total_value |-> f.amount,
   transaction_type |-> "purchase", status |-> "completed",
   blockchain_hash |-> f.hash]

\* INSERT INTO transactions (...) VALUES (..., 'purchase', 'completed', ?)
TransactionRow(f) ==
  [from_user_id |-> f.project.admin_id, to_user_id |-> f.user,
   project_id |-> f.project_id, token_amount |-> f.amount,
   total_value |-> f.amount * f.project.token_price,
   transaction_type |-> "purchase", status |-> "completed",
   blockchain_hash |-> f.hash]

\* the update with the sign of the amount inverted
DecrementAvailableInverted(row, amount) ==
  [row EXCEPT !.available_tokens = @ + amount]

\* the decrement applied to the row as it is when the lock is held
DecrementAvailable(row, amount) ==
  [row EXCEPT !.available_tokens = @ - amount]

\* connection.commit(): the three writes become visible together
PurchaseCommit(f) ==
  /\ f \in BagToSet(purchase)
  /\ f.pc = "commit"
  /\ tokens' = tokens (+) One(TokenRow(f))
  /\ projects' = [projects EXCEPT
                    ![f.project_id] = DecrementAvailable(@, f.amount)]
  /\ transactions' = transactions (+) One(TransactionRow(f))
  /\ purchase' = purchase (-) One(f)
  /\ response' = Response(201, "Tokens purchased successfully", "")
  /\ UNCHANGED <<profit_distributions, user_profit_records, nextDistId,
                 ledger, distribute, requests, openReleased, review>>

\* the ledger call or a statement throws, or the process dies:
\* connection.rollback() discards the uncommitted writes
PurchaseFail(f) ==
  /\ f \in BagToSet(purchase)
  /\ purchase' = purchase (-) One(f)
  /\ response' = Response(500, "Error purchasing tokens", "")
  /\ UNCHANGED <<dbVars, nextDistId, ledger, distribute, requests,
                 openReleased, review>>

(***************************************************************************)
(* ProfitController.distributeProfit and ProfitService.distributeProfit    *)
(***************************************************************************)
\* the validation of newProfit in the handler
InvalidProfit(newProfit) == newProfit = 0 \/ newProfit <= 0

\* the admin share computed with the holders' percentage
AdminShareOfHolders(newProfit) == DMulInt(Double070, newProfit)

\* const adminShare = newProfit * 0.30
AdminShare(newProfit) == DMulInt(Double030, newProfit)

\* const userTotalShare = newProfit * 0.70
UserTotalShare(newProfit) == DMulInt(Double070, newProfit)

RECURSIVE SumTokens(_)
\* tokenHolders.reduce((sum, holder) => sum + holder.total_tokens, 0)
SumTokens(holders) ==
  IF holders = << >> THEN 0
  ELSE Head(holders).total_tokens + SumTokens(Tail(holders))

\* const profitPerToken = userTotalShare / totalUserTokens
ProfitPerToken(userTotalShare, totalUserTokens) ==
  DDivInt(userTotalShare, totalUserTokens)

\* the credit without the factor holder.total_tokens
UserProfitPerHolder(holder, profitPerToken) == profitPerToken

\* const userProfit = holder.total_tokens * profitPerToken
UserProfit(holder, profitPerToken) ==
  DMulInt(profitPerToken, holder.total_tokens)

\* the checks of the service on the rows it read; "" when they pass
ServiceCheck(p) ==
  IF p \notin DOMAIN projects THEN "Project not found"
  ELSE IF projects[p].status = "completed"
  THEN "Cannot distribute profit for completed project"
  ELSE IF projects[p].available_tokens > 0
  THEN "Cannot distribute profit until all tokens are sold"
  ELSE IF SelectTokenHolders(tokens, p) = << >>
  THEN "No token holders found for this project"
  ELSE ""

\* ProfitController.checkDistributionReadiness: the readiness check, sent
\* as the data of the response
CheckDistributionReadiness(p) ==
  /\ Receive
  /\ response' =
       ResponseData("Distribution readiness checked",
                    isProjectReadyForDistribution(projects, tokens, p))
  /\ UNCHANGED <<dbVars, nextDistId, ledger, purchase, distribute,
                 openReleased, review>>

\* the value returned by the catch of isProjectReadyForDistribution
ReadinessDatabaseError ==
  [ready |-> FALSE, reason |-> "Database error", tokensSold |-> 0,
   totalTokens |-> 0, availableTokens |-> 0, tokenHolderCount |-> 0]

\* isProjectReadyForDistribution has read the project and goes on to its
\* second query, the count of the holders
ReachesHolderCount(pj, p) ==
  /\ p \in DOMAIN pj
  /\ pj[p].status \notin {"completed", "cancelled"}
  /\ ~(pj[p].available_tokens > 0)

\* ProfitController.checkDistributionReadiness when a query of the
\* readiness check throws: the first one (the project) or the second one
\* (the holders)
CheckDistributionReadinessError(p, query) ==
  /\ Receive
  /\ query = 2 => ReachesHolderCount(projects, p)
  /\ response' =
       ResponseData("Distribution readiness checked", ReadinessDatabaseError)
  /\ UNCHANGED <<dbVars, nextDistId, ledger, purchase, distribute,
                 openReleased, review>>

\* the response of the handler before it calls the service; "" when it does
HandlerRejection(p, newProfit) ==
  IF InvalidProfit(newProfit) THEN "badRequest"
  ELSE IF ~isProjectReadyForDistribution(projects, tokens, p).ready
  THEN "notReady"
  ELSE ""

\* the handler, called by admin adminId (req.user.id): validation and the
\* readiness check, before the service call
DistributeStart(p, newProfit, adminId) ==
  /\ Receive
  /\ response' =
       IF HandlerRejection(p, newProfit) = "badRequest"
       THEN Response(400, "New profit must be greater than 0", "")
       ELSE IF HandlerRejection(p, newProfit) = "notReady"
       THEN Response(400, "Project not ready for profit distribution",
                     isProjectReadyForDistribution(projects, tokens, p).reason)
       ELSE response
  /\ distribute' =
       IF HandlerRejection(p, newProfit) # "" THEN distribute
       ELSE distribute (+) One([pc |-> "service", projectId |-> p,
                                newProfit |-> newProfit,
                                adminId |-> adminId])
  /\ UNCHANGED <<dbVars, nextDistId, ledger, purchase, openReleased, review>>

\* the service: beginTransaction, SELECT of the project and of the holders
\* (one snapshot), the checks, the split
DistributeBegin(f) ==
  /\ f \in BagToSet(distribute)
  /\ f.pc = "service"
  /\ LET p == f.projectId
         tokenHolders == SelectTokenHolders(tokens, p)
         userTotalShare == UserTotalShare(f.newProfit)
         totalUserTokens == SumTokens(tokenHolders)
     IN  distribute' =
           IF ServiceCheck(p) # "" THEN distribute (-) One(f)
           ELSE (distribute (-) One(f)) (+) One(
                  [pc |-> "insertPending", projectId |-> p,
                   newProfit |-> f.newProfit, adminId |-> f.adminId,
                   adminShare |-> AdminShare(f.newProfit),
                   userTotalShare |-> userTotalShare,
                   tokenHolders |-> tokenHolders,
                   totalUserTokens |-> totalUserTokens,
                   profitPerToken |->
                     ProfitPerToken(userTotalShare, totalUserTokens),
                   insertedId |-> 0, updatedId |-> 0, hash |-> 0,
                   userProfits |-> << >>, profitRows |-> << >>])
  /\ response' =
       IF ServiceCheck(f.projectId) # ""
       THEN Response(500, "Error distributing profit",
                     ServiceCheck(f.projectId))
       ELSE response
  /\ UNCHANGED <<dbVars, nextDistId, ledger, purchase, requests, openReleased,
                 review>>

\* INSERT INTO profit_distributions (...) VALUES (..., 'pending')
DistributeInsertPending(f) ==
  /\ f \in BagToSet(distribute)
  /\ f.pc = "insertPending"
  /\ distribute' = (distribute (-) One(f))
                     (+) One([f EXCEPT !.pc = "addDividenProfit",
                                       !.insertedId = nextDistId])
  /\ nextDistId' = nextDistId + 1
  /\ UNCHANGED <<dbVars, ledger, purchase, requests, response, openReleased,
                 review>>

\* BlockchainService.addDividenProfit includes the record, returns its hash
DistributeAddDividenProfit(f) ==
  /\ f \in BagToSet(distribute)
  /\ f.pc = "addDividenProfit"
  /\ ledger' = Append(ledger, [kind |-> "dividend", projectId |-> f.projectId,
                               amount |-> f.newProfit])
  /\ distribute' = (distribute (-) One(f))
                     (+) One([f EXCEPT !.pc = "updateDistribution",
                                       !.hash = Len(ledger) + 1])
  /\ UNCHANGED <<dbVars, nextDistId, purchase, requests, response,
                 openReleased, review>>

\* the row that UPDATE profit_distributions ... ORDER BY id DESC LIMIT 1 hits
UpdateTarget(f) == LatestDistributionId(f)

\* UPDATE profit_distributions SET blockchain_hash = ?, status = "completed"
\*  WHERE project_id = ? ORDER BY id DESC LIMIT 1
DistributeUpdateDistribution(f) ==
  /\ f \in BagToSet(distribute)
  /\ f.pc = "updateDistribution"
  /\ ~LatestDistributionBlocked(f)
  /\ distribute' = (distribute (-) One(f))
                     (+) One([f EXCEPT !.pc = "insertUserProfit",
                                       !.updatedId = UpdateTarget(f)])
  /\ UNCHANGED <<dbVars, nextDistId, ledger, purchase, requests, response,
                 openReleased, review>>

\* one turn of the loop over tokenHolders: INSERT INTO user_profit_records
\* with distribution_id = (SELECT id ... ORDER BY id DESC LIMIT 1)
DistributeInsertUserProfit(f) ==
  /\ f \in BagToSet(distribute)
  /\ f.pc = "insertUserProfit"
  /\ ~LatestDistributionBlocked(f)
  /\ LET holder == f.tokenHolders[Len(f.userProfits) + 1]
         userProfit == UserProfit(holder, f.profitPerToken)
         row == [user_id |-> holder.user_id, project_id |-> f.projectId,
                 token_amount |-> holder.total_tokens,
                 profit_amount |-> userProfit,
                 distribution_id |-> LatestDistributionId(f)]
         last == Len(f.userProfits) + 1 = Len(f.tokenHolders)
     IN  distribute' = (distribute (-) One(f)) (+) One(
           [f EXCEPT
              !.profitRows = Append(@, row),
              !.userProfits =
                 Append(@, [user_id |-> holder.user_id,
                            token_amount |-> holder.total_tokens,
                            profit_amount |-> userProfit]),
              !.pc = IF last THEN "updateProject" ELSE "insertUserProfit"])
  /\ UNCHANGED <<dbVars, nextDistId, ledger, purchase, requests, response,
                 openReleased, review>>

\* UPDATE projects SET status = "completed": waits for the row lock
DistributeUpdateProject(f) ==
  /\ f \in BagToSet(distribute)
  /\ f.pc = "updateProject"
  /\ ~ProjectLocked(f.projectId)
  /\ distribute' = (distribute (-) One(f)) (+) One([f EXCEPT !.pc = "commit"])
  /\ UNCHANGED <<dbVars, nextDistId, ledger, purchase, requests, response,
                 openReleased, review>>

\* the row inserted by the call, as the INSERT wrote it
PendingRow(f) ==
  [id |-> f.insertedId, project_id |-> f.projectId,
   total_profit |-> f.newProfit, admin_share |-> f.adminShare,
   user_share |-> f.userTotalShare, profit_per_token |-> f.profitPerToken,
   blockchain_hash |-> 0, status |-> "pending"]

\* the effect of the UPDATE of the call on a row
CompletedRow(row, f) ==
  IF row.id = f.updatedId
  THEN [row EXCEPT !.blockchain_hash = f.hash, !.status = "completed"]
  ELSE row

RECURSIVE SeqToBag(_)
SeqToBag(q) ==
  IF q = << >> THEN EmptyBag
  ELSE One(Head(q)) (+) SeqToBag(Tail(q))

\* the project row after UPDATE projects SET status = "completed"
CompleteProject(row) == [row EXCEPT !.status = "completed"]

\* connection.commit()
DistributeCommit(f) ==
  /\ f \in BagToSet(distribute)
  /\ f.pc = "commit"
  /\ profit_distributions' =
       {CompletedRow(r, f) : r \in profit_distributions \cup {PendingRow(f)}}
  /\ user_profit_records' = user_profit_records (+) SeqToBag(f.profitRows)
  /\ projects' = [projects EXCEPT ![f.projectId] = CompleteProject(@)]
  /\ distribute' = distribute (-) One(f)
  /\ response' = Response(200, "Profit distributed successfully", "")
  /\ UNCHANGED <<tokens, transactions, nextDistId, ledger, purchase, requests,
                 openReleased, review>>

\* the call fails and the writes it has made so far stay in the tables
DistributeFailWithoutRollback(f) ==
  /\ f \in BagToSet(distribute)
  /\ f.pc # "service"
  /\ distribute' = distribute (-) One(f)
  /\ response' = Response(500, "Error distributing profit", "")
  /\ profit_distributions' =
       IF f.pc = "insertPending" THEN profit_distributions
       ELSE {CompletedRow(r, f) : r \in profit_distributions \cup {PendingRow(f)}}
  /\ user_profit_records' = user_profit_records (+) SeqToBag(f.profitRows)
  /\ projects' = IF f.pc = "commit"
                 THEN [projects EXCEPT ![f.projectId] = CompleteProject(@)]
                 ELSE projects
  /\ UNCHANGED <<tokens, transactions, nextDistId, ledger, purchase, requests,
                 openReleased, review>>

\* the ledger call or a statement throws, or the process dies:
\* connection.rollback() discards the uncommitted writes
DistributeFail(f) ==
  /\ f \in BagToSet(distribute)
  /\ f.pc # "service"
  /\ distribute' = distribute (-) One(f)
  /\ response' = Response(500, "Error distributing profit", "")
  /\ UNCHANGED <<dbVars, nextDistId, ledger, purchase, requests, openReleased,
                 review>>

(***************************************************************************)
(* ProjectController.updateProjectStatus                                   *)
(***************************************************************************)
\* ProjectService.isProjectOwnedByAdmin
isProjectOwnedByAdmin(p, adminId) ==
  p \in DOMAIN projects /\ projects[p].admin_id = adminId

\* ProjectService.updateProjectStatus: one autocommit UPDATE
updateProjectStatus(row, status) == [row EXCEPT !.status = status]

UpdateProjectStatus(p, status, adminId) ==
  /\ Receive
  /\ ~ProjectLocked(p)
  /\ projects' = IF isProjectOwnedByAdmin(p, adminId)
                 THEN [projects EXCEPT ![p] = updateProjectStatus(@, status)]
                 ELSE projects
  /\ response' =
       IF isProjectOwnedByAdmin(p, adminId)
       THEN Response(200, "Project status updated successfully", "")
       ELSE Response(403, "You can only update your own projects", "")
  /\ UNCHANGED <<tokens, transactions, profit_distributions,
                 user_profit_records, nextDistId, ledger, purchase,
                 distribute, openReleased, review>>

(***************************************************************************)
(* Specifications                                                          *)
(***************************************************************************)
Next ==
  \/ \E p \in ProjectIds : CreateProject(p, TotalTokens)
  \/ \E u \in Users, p \in AllProjectIds, a \in Amounts :
       PurchaseStart(u, p, a)
  \/ \E f \in BagToSet(purchase) : PurchaseCreateToken(f)
  \/ \E f \in BagToSet(purchase) : PurchaseUpdateProject(f)
  \/ \E f \in BagToSet(purchase) : PurchaseCommit(f)
  \/ \E f \in BagToSet(purchase) : PurchaseFail(f)
  \/ \E p \in AllProjectIds : CheckDistributionReadiness(p)
  \/ \E p \in AllProjectIds, q \in 1..2 :
       CheckDistributionReadinessError(p, q)
  \/ \E p \in AllProjectIds, n \in NewProfits, a \in Admins :
       DistributeStart(p, n, a)
  \/ \E f \in BagToSet(distribute) : DistributeBegin(f)
  \/ \E f \in BagToSet(distribute) : DistributeInsertPending(f)
  \/ \E f \in BagToSet(distribute) : DistributeAddDividenProfit(f)
  \/ \E f \in BagToSet(distribute) : DistributeUpdateDistribution(f)
  \/ \E f \in BagToSet(distribute) : DistributeInsertUserProfit(f)
  \/ \E f \in BagToSet(distribute) : DistributeUpdateProject(f)
  \/ \E f \in BagToSet(distribute) : DistributeCommit(f)
  \/ \E f \in BagToSet(distribute) : DistributeFail(f)
  \/ \E p \in AllProjectIds, s \in Statuses, a \in Admins :
       UpdateProjectStatus(p, s, a)

Spec == Init /\ [][Next]_vars

(***************************************************************************)
(* Purchases one at a time: a request is received only when the previous   *)
(* one has returned.                                                       *)
(***************************************************************************)
NextSeq ==
  \/ \E p \in ProjectIds : CreateProject(p, TotalTokens)
  \/ \E u \in Users, p \in AllProjectIds, a \in Amounts :
       purchase = EmptyBag /\ PurchaseStart(u, p, a)
  \/ \E f \in BagToSet(purchase) : PurchaseCreateToken(f)
  \/ \E f \in BagToSet(purchase) : PurchaseUpdateProject(f)
  \/ \E f \in BagToSet(purchase) : PurchaseCommit(f)
  \/ \E f \in BagToSet(purchase) : PurchaseFail(f)

SpecSeq == Init /\ [][NextSeq]_vars

(***************************************************************************)
(* One distributeProfit request on a project that purchases have sold out: *)
(* the holdings and the profit are drawn from bounded sets.                *)
(***************************************************************************)
MaxSoldTokens == 5

MaxProfit == 12

\* the projects row of a project of total_tokens tokens, all sold
SoldOutProject(total_tokens) ==
  [status |-> "active", total_tokens |-> total_tokens, available_tokens |-> 0,
   token_price |-> TokenPrice, admin_id |-> OwnerAdmin]

\* the frame of the purchase of a tokens by user u, at its commit
SoldFrame(p, u, a, h) ==
  [pc |-> "commit", user |-> u, project_id |-> p, amount |-> a,
   project |-> SoldOutProject(a), hash |-> h]

\* the frames of the purchases of a1 tokens by the first user and a2 by
\* the second
SoldFrames(p, a1, a2) ==
  IF a1 = 0 THEN <<SoldFrame(p, UserOrder[2], a2, 1)>>
  ELSE IF a2 = 0 THEN <<SoldFrame(p, UserOrder[1], a1, 1)>>
  ELSE <<SoldFrame(p, UserOrder[1], a1, 1), SoldFrame(p, UserOrder[2], a2, 2)>>

InitSoldOut ==
  \E p \in ProjectIds, a1 \in 0..MaxSoldTokens, a2 \in 0..MaxSoldTokens :
    /\ a1 + a2 \in 1..MaxSoldTokens
    /\ LET fs == SoldFrames(p, a1, a2)
       IN  /\ projects = [q \in {p} |-> SoldOutProject(a1 + a2)]
           /\ tokens = SeqToBag([i \in DOMAIN fs |-> TokenRow(fs[i])])
           /\ transactions =
                SeqToBag([i \in DOMAIN fs |-> TransactionRow(fs[i])])
           /\ ledger = [i \in DOMAIN fs |->
                 [kind |-> "token", projectId |-> p, amount |-> fs[i].amount]]
    /\ profit_distributions = {}
    /\ user_profit_records = EmptyBag
    /\ nextDistId = 1
    /\ purchase = EmptyBag
    /\ distribute = EmptyBag
    /\ requests = MaxRequests - 1
    /\ response = Response(201, "Tokens purchased successfully", "")
    /\ openReleased = 0
    /\ review = EmptyBag

NextDist ==
  \/ \E p \in ProjectIds, n \in 1..MaxProfit, a \in Admins :
       DistributeStart(p, n, a)
  \/ \E f \in BagToSet(distribute) : DistributeBegin(f)
  \/ \E f \in BagToSet(distribute) : DistributeInsertPending(f)
  \/ \E f \in BagToSet(distribute) : DistributeAddDividenProfit(f)
  \/ \E f \in BagToSet(distribute) : DistributeUpdateDistribution(f)
  \/ \E f \in BagToSet(distribute) : DistributeInsertUserProfit(f)
  \/ \E f \in BagToSet(distribute) : DistributeUpdateProject(f)
  \/ \E f \in BagToSet(distribute) : DistributeCommit(f)
  \/ \E f \in BagToSet(distribute) : DistributeFail(f)

SpecDist == InitSoldOut /\ [][NextDist]_vars

(***************************************************************************)
(* Properties                                                              *)
(***************************************************************************)
\* C1: with purchases executed one at a time, in every committed state
\* available_tokens is >= 0, is <= total_tokens, and equals total_tokens
\* minus the sum of the amounts of the project's active holdings.
C1_SupplyInvariant ==
  \A p \in DOMAIN projects :
    /\ projects[p].available_tokens >= 0
    /\ projects[p].available_tokens <= projects[p].total_tokens
    /\ projects[p].available_tokens =
         projects[p].total_tokens - ActiveAmount(tokens, p)

\* a purchase has committed, another one has been refused or has failed
C1_Witness ==
  /\ \E p \in DOMAIN projects :
       /\ ActiveAmount(tokens, p) > 0
       /\ projects[p].available_tokens < projects[p].total_tokens
  /\ requests > BagCardinality(tokens)
  /\ purchase = EmptyBag

\* C2: whatever the interleaving of concurrent purchases of one project,
\* the purchases that commit never sum to more than the supply:
\* available_tokens never becomes negative and the active holdings never
\* exceed total_tokens.
C2_NoOversell ==
  \A p \in DOMAIN projects :
    /\ projects[p].available_tokens >= 0
    /\ ActiveAmount(tokens, p) <= projects[p].total_tokens

\* the project p has a 'completed' distribution record
AlreadyDistributed(p) ==
  \E d \in profit_distributions :
    d.project_id = p /\ d.status = "completed"

\* this step commits a distributeProfit call for project p
DistributionCommits(p) ==
  \E d \in profit_distributions' :
    /\ d.project_id = p
    /\ \A o \in profit_distributions : o.id # d.id

\* C3: of the distributeProfit calls that run concurrently for one eligible
\* project exactly one commits: no call commits for a project that already
\* has a 'completed' distribution record.
C3_DistributeExactlyOnce ==
  [][\A p \in ProjectIds : DistributionCommits(p) => ~AlreadyDistributed(p)]_vars

\* C4: in every committed state a 'completed' distribution record has a
\* user profit record for every holder of the project, and a project
\* completed by a distribution has no distribution record still 'pending'.
C4_AtomicDistribution ==
  /\ \A d \in profit_distributions :
       d.status = "completed" =>
         \A u \in Holders(tokens, d.project_id) :
           \E r \in BagToSet(user_profit_records) :
             r.distribution_id = d.id /\ r.user_id = u
  /\ \A p \in DOMAIN projects :
       (projects[p].status = "completed" /\ AlreadyDistributed(p)) =>
         \A d \in profit_distributions :
           d.project_id = p => d.status # "pending"

\* C5: a project has at most one distribution record.
C5_SingleDistribution ==
  \A p \in DOMAIN projects :
    Cardinality({d \in profit_distributions : d.project_id = p}) <= 1

\* C6: a project's status changes only from 'active', to 'completed' as
\* part of a committing distributeProfit or to 'cancelled' by the status
\* update, and never leaves 'completed' or 'cancelled'.
C6_StatusTransitions ==
  [][\A p \in DOMAIN projects :
       projects'[p].status # projects[p].status =>
         /\ projects[p].status = "active"
         /\ \/ projects'[p].status = "completed" /\ DistributionCommits(p)
            \/ /\ projects'[p].status = "cancelled"
               /\ profit_distributions' = profit_distributions]_vars

\* C7: once a project is 'completed' or 'cancelled', no step creates a
\* holding for it, changes its available_tokens, or creates a distribution
\* record or profit credits for it.
C7_TerminalAcceptsNothing ==
  [][\A p \in DOMAIN projects :
       projects[p].status \in {"completed", "cancelled"} =>
         /\ ActiveTokens(tokens', p) = ActiveTokens(tokens, p)
         /\ ActiveAmount(tokens', p) = ActiveAmount(tokens, p)
         /\ projects'[p].available_tokens = projects[p].available_tokens
         /\ ~DistributionCommits(p)
         /\ user_profit_records' = user_profit_records]_vars

\* C8: in every step a project's available_tokens stays the same or
\* decreases by the positive amount of a purchase that commits in that
\* step, and its total_tokens never changes.
C8_AvailableOnlyDecreases ==
  [][\A p \in DOMAIN projects :
       /\ projects'[p].total_tokens = projects[p].total_tokens
       /\ projects'[p].available_tokens <= projects[p].available_tokens
       /\ \/ projects'[p].available_tokens = projects[p].available_tokens
          \/ \E f \in BagToSet(purchase) :
               /\ f.pc = "commit" /\ f.project_id = p /\ f.amount > 0
               /\ purchase' = purchase (-) One(f)
               /\ projects'[p].available_tokens =
                    projects[p].available_tokens - f.amount]_vars

\* a purchase has committed and another step has followed
C8_Witness ==
  \E p \in DOMAIN projects :
    /\ projects[p].available_tokens < projects[p].total_tokens
    /\ projects[p].status # "active"

\* C9: the adminShare and the userTotalShare that distributeProfit computes
\* add up to newProfit exactly.
C9_SplitExact ==
  \A f \in BagToSet(distribute) :
    f.pc # "service" =>
      DEq(DAdd(f.adminShare, f.userTotalShare), DFromInt(f.newProfit))

RECURSIVE SumProfits(_, _)
\* the exact sum of the profit_amount of the records, in units of 2^e0
SumProfits(records, e0) ==
  IF records = << >> THEN << >>
  ELSE BigAdd(DScaled(Head(records).profit_amount, e0),
              SumProfits(Tail(records), e0))

\* |sum of the profit_amount of the records - share| <= n * 2^(-7):
\* n hundredths of a currency unit and more
WithinUnits(records, share, n) ==
  LET e0 == 0 - 128
      sum == SumProfits(records, e0)
      sh == DScaled(share, e0)
      diff == IF BigCmp(sum, sh) >= 0 THEN BigSub(sum, sh) ELSE BigSub(sh, sum)
  IN  BigCmp(diff, BigShl(BigFromInt(n), 128 - 7)) <= 0

OrderedChecks(p) ==
  IF p \notin DOMAIN projects THEN [ready |-> FALSE, check |-> "exists"]
  ELSE IF projects[p].status = "completed"
  THEN [ready |-> FALSE, check |-> "completed"]
  ELSE IF projects[p].status = "cancelled"
  THEN [ready |-> FALSE, check |-> "cancelled"]
  ELSE IF projects[p].available_tokens # 0
  THEN [ready |-> FALSE, check |-> "soldOut"]
  ELSE IF Holders(tokens, p) = {}
  THEN [ready |-> FALSE, check |-> "holders"]
  ELSE [ready |-> TRUE, check |-> ""]

\* the check that a reason of isProjectReadyForDistribution belongs to
CheckOfReason(reason) ==
  IF reason = "Project not found" THEN "exists"
  ELSE IF reason = "Project is already completed" THEN "completed"
  ELSE IF reason = "Project is cancelled" THEN "cancelled"
  ELSE IF reason = "Cannot distribute profit until all tokens are sold"
  THEN "soldOut"
  ELSE IF reason = "No active token holders found for this project"
  THEN "holders"
  ELSE ""

\* C11: the readiness check answers with the reason of the first failing
\* check in the order exists, not completed, not cancelled,
\* available_tokens = 0, at least one active holder, and answers ready
\* (with the holder count) only when the five checks pass.
C11_ReadinessOrder ==
  [][\A p \in AllProjectIds :
       CheckDistributionReadiness(p) =>
         /\ response'.data.ready = OrderedChecks(p).ready
         /\ CheckOfReason(response'.data.reason) = OrderedChecks(p).check
         /\ response'.data.ready =>
              response'.data.tokenHolderCount =
                Cardinality(Holders(tokens, p))]_vars

(***************************************************************************)
(* The distribution of a profit of 50000 over holdings of 60 and 40 tokens *)
(* of a project of 100 tokens: the project is created and sold by          *)
(* purchases, requests one at a time.                                      *)
(***************************************************************************)
ScenarioAmounts == {60, 40}

ScenarioTokens == 60 + 40

ScenarioProfits == {50000}

NextScenario ==
  \/ \E p \in ProjectIds : CreateProject(p, ScenarioTokens)
  \/ \E u \in Users, p \in ProjectIds, a \in ScenarioAmounts :
       purchase = EmptyBag /\ distribute = EmptyBag /\ PurchaseStart(u, p, a)
  \/ \E f \in BagToSet(purchase) : PurchaseCreateToken(f)
  \/ \E f \in BagToSet(purchase) : PurchaseUpdateProject(f)
  \/ \E f \in BagToSet(purchase) : PurchaseCommit(f)
  \/ \E f \in BagToSet(purchase) : PurchaseFail(f)
  \/ \E p \in ProjectIds, n \in ScenarioProfits, a \in Admins :
       /\ purchase = EmptyBag
       /\ distribute = EmptyBag
       /\ DistributeStart(p, n, a)
  \/ \E f \in BagToSet(distribute) : DistributeBegin(f)
  \/ \E f \in BagToSet(distribute) : DistributeInsertPending(f)
  \/ \E f \in BagToSet(distribute) : DistributeAddDividenProfit(f)
  \/ \E f \in BagToSet(distribute) : DistributeUpdateDistribution(f)
  \/ \E f \in BagToSet(distribute) : DistributeInsertUserProfit(f)
  \/ \E f \in BagToSet(distribute) : DistributeUpdateProject(f)
  \/ \E f \in BagToSet(distribute) : DistributeCommit(f)
  \/ \E f \in BagToSet(distribute) : DistributeFail(f)

SpecScenario == Init /\ [][NextScenario]_vars

\* project p has exactly two holders, with active holdings of 60 and of 40
HeldSixtyForty(p) ==
  /\ Cardinality(Holders(tokens, p)) = 2
  /\ {HolderAmount(tokens, p, u) : u \in Holders(tokens, p)} = {60, 40}

\* C12: for a project of 100 tokens, all sold, held 60 and 40 by two
\* holders, a committed distributeProfit of newProfit = 50000 records
\* adminShare 15000, userShare 35000, profitPerToken 350, credits the
\* holders 21000 and 14000 and leaves the project 'completed'.
C12_Scenario ==
  \A d \in profit_distributions :
    (/\ d.status = "completed"
     /\ d.total_profit = 50000
     /\ projects[d.project_id].total_tokens = 100
     /\ HeldSixtyForty(d.project_id)) =>
      /\ DEq(d.admin_share, DFromInt(15000))
      /\ DEq(d.user_share, DFromInt(35000))
      /\ DEq(d.profit_per_token, DFromInt(350))
      /\ \A u \in Holders(tokens, d.project_id) :
           \E r \in BagToSet(user_profit_records) :
             /\ r.distribution_id = d.id
             /\ r.user_id = u
             /\ CopiesIn(r, user_profit_records) = 1
             /\ r.token_amount = HolderAmount(tokens, d.project_id, u)
             /\ DEq(r.profit_amount,
                    DFromInt(IF r.token_amount = 60 THEN 21000 ELSE 14000))
      /\ BagCardinality(user_profit_records) = 2
      /\ projects[d.project_id].status = "completed"

\* the distribution of 50000 over holdings of 60 and 40 has committed
C12_Witness ==
  /\ \E d \in profit_distributions :
       /\ d.status = "completed"
       /\ d.total_profit = 50000
       /\ HeldSixtyForty(d.project_id)
       /\ projects[d.project_id].available_tokens = 0
  /\ response = Response(200, "Profit distributed successfully", "")

\* C13: a purchaseTokens call for a positive amount above the
\* available_tokens of an active project is answered with the
\* insufficient-tokens error and changes no table, starts no transaction
\* frame and submits nothing to the external ledger.
C13_InsufficientSupply ==
  [][\A u \in Users, p \in ProjectIds, a \in Amounts :
       (/\ PurchaseStart(u, p, a)
        /\ a > 0
        /\ p \in DOMAIN projects
        /\ projects[p].status = "active"
        /\ a > projects[p].available_tokens) =>
         /\ response' = Response(400, "Insufficient tokens available", "")
         /\ UNCHANGED <<dbVars, ledger, purchase>>]_vars

\* after a committed purchase, a purchase for more than what is left has
\* been refused
C13_Witness ==
  /\ response = Response(400, "Insufficient tokens available", "")
  /\ \E p \in DOMAIN projects :
       /\ projects[p].status = "active"
       /\ projects[p].available_tokens > 0
       /\ projects[p].available_tokens < projects[p].total_tokens
       /\ projects[p].available_tokens =
            projects[p].total_tokens - ActiveAmount(tokens, p)
  /\ BagCardinality(transactions) = BagCardinality(tokens)

\* the purchaseTokens call of frame f ends in this step while its next
\* statement is the ledger call: BlockchainService.createToken has thrown
CreateTokenFails(f) ==
  /\ f.pc = "createToken"
  /\ purchase' = purchase (-) One(f)

\* C14: when the ledger's createToken fails in an otherwise valid
\* purchaseTokens, the sale is still committed (the holding, the decrement
\* of available_tokens, the transaction record) and the response tells that
\* the ledger did not confirm.
C14_LedgerFailureKeepsSale ==
  [][\A f \in BagToSet(purchase) :
       CreateTokenFails(f) =>
         /\ \E r \in BagToSet(tokens') :
              /\ r.project_id = f.project_id
              /\ r.user_id = f.user
              /\ r.amount = f.amount
              /\ CopiesIn(r, tokens') = CopiesIn(r, tokens) + 1
         /\ projects'[f.project_id].available_tokens =
              projects[f.project_id].available_tokens - f.amount
         /\ BagCardinality(transactions') = BagCardinality(transactions) + 1
         /\ response'.status # 500]_vars

\* the distributeProfit call of frame f ends in this step while its next
\* statement is the ledger call: BlockchainService.addDividenProfit has
\* thrown
AddDividenProfitFails(f) ==
  /\ f.pc = "addDividenProfit"
  /\ distribute' = distribute (-) One(f)

\* C15: when the ledger's addDividenProfit fails, the distributeProfit call
\* fails and the distribution record it inserted stays stored with status
\* 'pending'.
C15_PendingRemains ==
  [][\A f \in BagToSet(distribute) :
       AddDividenProfitFails(f) =>
         /\ response'.status = 500
         /\ \E d \in profit_distributions' :
              /\ d.id = f.insertedId
              /\ d.project_id = f.projectId
              /\ d.status = "pending"]_vars

(***************************************************************************)
(* Requests one at a time: a purchaseTokens or distributeProfit request is *)
(* received only when the previous one has returned, so that a             *)
(* distributeProfit that follows a failed one is a retry.                  *)
(***************************************************************************)
NextRetry ==
  \/ \E p \in ProjectIds : CreateProject(p, TotalTokens)
  \/ \E u \in Users, p \in ProjectIds, a \in Amounts :
       purchase = EmptyBag /\ distribute = EmptyBag /\ PurchaseStart(u, p, a)
  \/ \E f \in BagToSet(purchase) : PurchaseCreateToken(f)
  \/ \E f \in BagToSet(purchase) : PurchaseUpdateProject(f)
  \/ \E f \in BagToSet(purchase) : PurchaseCommit(f)
  \/ \E f \in BagToSet(purchase) : PurchaseFail(f)
  \/ \E p \in AllProjectIds, n \in NewProfits, a \in Admins :
       /\ purchase = EmptyBag
       /\ distribute = EmptyBag
       /\ DistributeStart(p, n, a)
  \/ \E f \in BagToSet(distribute) : DistributeBegin(f)
  \/ \E f \in BagToSet(distribute) : DistributeInsertPending(f)
  \/ \E f \in BagToSet(distribute) : DistributeAddDividenProfit(f)
  \/ \E f \in BagToSet(distribute) : DistributeUpdateDistribution(f)
  \/ \E f \in BagToSet(distribute) : DistributeInsertUserProfit(f)
  \/ \E f \in BagToSet(distribute) : DistributeUpdateProject(f)
  \/ \E f \in BagToSet(distribute) : DistributeCommit(f)
  \/ \E f \in BagToSet(distribute) : DistributeFail(f)

SpecRetry == Init /\ [][NextRetry]_vars

\* the 'completed' distribution records
CompletedDistributions(pd) == {d \in pd : d.status = "completed"}

\* this step leaves the tables as a failed distributeProfit must: the
\* projects and the user profit records are untouched, no distribution
\* record is 'completed' that was not, and a project that was ready for
\* distribution still is
FailureLeavesNoTrace ==
  /\ projects' = projects
  /\ user_profit_records' = user_profit_records
  /\ CompletedDistributions(profit_distributions') =
       CompletedDistributions(profit_distributions)
  /\ \A p \in ProjectIds :
       isProjectReadyForDistribution(projects, tokens, p).ready =>
         isProjectReadyForDistribution(projects', tokens', p).ready

\* C16: a distributeProfit that fails before its commit (refused by the
\* handler or by the service, ledger error, database error) leaves the
\* project's status as it was ('active'), writes no user profit record and
\* no 'completed' distribution record, and leaves a ready project ready,
\* so that a later call can succeed.
C16_FailureLeavesActive ==
  [][/\ (/\ requests' # requests
         /\ response'.status = 400
         /\ response'.message \in {"New profit must be greater than 0",
                                   "Project not ready for profit distribution"})
          => FailureLeavesNoTrace
     /\ \A f \in BagToSet(distribute) :
          (distribute' = distribute (-) One(f) /\ response'.status = 500)
            => FailureLeavesNoTrace]_vars

\* a distributeProfit that had inserted its record (id 1) has failed, and
\* the next call has succeeded: its record (id 2) is the only one
C16_Witness ==
  /\ \E d \in profit_distributions :
       /\ d.id = 2
       /\ d.status = "completed"
       /\ projects[d.project_id].status = "completed"
  /\ \A d \in profit_distributions : d.id # 1
  /\ BagCardinality(user_profit_records) > 0
  /\ distribute = EmptyBag

\* the dividend records of project p on the external ledger
LedgerDividends(p) ==
  {i \in DOMAIN ledger :
     ledger[i].kind = "dividend" /\ ledger[i].projectId = p}

\* C17: however many times distributeProfit is retried for a project after
\* failed attempts, the external ledger holds at most one dividend record
\* for it.
C17_LedgerIdempotent ==
  \A p \in ProjectIds : Cardinality(LedgerDividends(p)) <= 1

\* the distributeProfit call of frame f has inserted its 'pending' record
\* and its ledger call has not returned, before and after this step
InLedgerWindow(f) ==
  /\ f \in BagToSet(distribute)
  /\ f.pc = "addDividenProfit"
  /\ CopiesIn(f, distribute') >= CopiesIn(f, distribute)

\* C18: while a distributeProfit call is between the insert of its
\* 'pending' record and the return of the ledger call, no step of another
\* request modifies the project row, and no other purchaseTokens or
\* distributeProfit call reads the project and goes on to act on it.
C18_LockedDuringLedgerCall ==
  [][\A f \in BagToSet(distribute) :
       InLedgerWindow(f) =>
         /\ projects'[f.projectId] = projects[f.projectId]
         /\ \A g \in BagToSet(distribute') :
              (g.projectId = f.projectId /\ g.pc = "insertPending") =>
                CopiesIn(g, distribute') <= CopiesIn(g, distribute)
         /\ \A g \in BagToSet(purchase') :
              (g.project_id = f.projectId /\ g.pc = "createToken") =>
                CopiesIn(g, purchase') <= CopiesIn(g, purchase)]_vars

(***************************************************************************)
(* One distributeProfit request, with the scheduling the code guarantees:  *)
(* every statement of the call that can run does run.  The answer of the   *)
(* external ledger is the environment's: the call awaits it without a      *)
(* timeout, so nothing makes DistributeAddDividenProfit or a failure       *)
(* happen.                                                                 *)
(***************************************************************************)
SpecDistFair ==
  /\ InitSoldOut
  /\ [][NextDist]_vars
  /\ WF_vars(\E f \in BagToSet(distribute) : DistributeBegin(f))
  /\ WF_vars(\E f \in BagToSet(distribute) : DistributeInsertPending(f))
  /\ WF_vars(\E f \in BagToSet(distribute) : DistributeUpdateDistribution(f))
  /\ WF_vars(\E f \in BagToSet(distribute) : DistributeInsertUserProfit(f))
  /\ WF_vars(\E f \in BagToSet(distribute) : DistributeUpdateProject(f))
  /\ WF_vars(\E f \in BagToSet(distribute) : DistributeCommit(f))

\* C19: every distributeProfit call eventually ends its transaction and
\* releases its connection, also when the external ledger does not answer.
C19_TransactionEnds ==
  (distribute # EmptyBag) ~> (distribute = EmptyBag)

\* C20: purchaseTokens answers a request with amount <= 0 with the
\* invalid-amount error, and a request with a positive amount for a project
\* that does not exist or is not 'active' with the not-active error; in
\* both cases no table changes, no transaction frame is started and
\* nothing is submitted to the external ledger.
C20_RejectedBeforeMutation ==
  [][\A u \in Users, p \in AllProjectIds, a \in Amounts :
       PurchaseStart(u, p, a) =>
         /\ a <= 0 =>
              /\ response' = Response(400, "Invalid project_id or amount", "")
              /\ UNCHANGED <<dbVars, ledger, purchase>>
         /\ (a > 0 /\ (p \notin DOMAIN projects
                        \/ projects[p].status # "active")) =>
              /\ response' =
                   Response(404, "Project not found or not active", "")
              /\ UNCHANGED <<dbVars, ledger, purchase>>]_vars

\* a purchase of a project that is no longer 'active' has been refused
C20_Witness ==
  /\ response = Response(404, "Project not found or not active", "")
  /\ \E p \in DOMAIN projects : projects[p].status # "active"
  /\ purchase = EmptyBag
  /\ tokens = EmptyBag

\* C21: the readiness check is a pure read: whatever its outcome (ready,
\* not ready, database error) it leaves the projects, the holdings, the
\* distribution records and the user profit records unchanged, and the
\* tokensSold it reports is total_tokens - available_tokens of the project
\* it read.
C21_ReadinessPureRead ==
  [][\A p \in AllProjectIds :
       /\ CheckDistributionReadiness(p) =>
            /\ UNCHANGED <<dbVars, ledger, nextDistId>>
            /\ p \in DOMAIN projects =>
                 response'.data.tokensSold =
                   projects[p].total_tokens - projects[p].available_tokens
       /\ \A q \in 1..2 :
            CheckDistributionReadinessError(p, q) =>
              /\ UNCHANGED <<dbVars, ledger, nextDistId>>
              /\ q = 2 =>
                   response'.data.tokensSold =
                     projects[p].total_tokens - projects[p].available_tokens]_vars

\* the part of C21 that the code keeps: no outcome of the readiness check
\* writes to a table
ReadinessWritesNothing ==
  [][\A p \in AllProjectIds :
       (\/ CheckDistributionReadiness(p)
        \/ \E q \in 1..2 : CheckDistributionReadinessError(p, q)) =>
         UNCHANGED <<dbVars, ledger, nextDistId>>]_vars

\* the service call of frame f passes its checks in this step and goes on
\* to insert its distribution record
ServiceGoesOn(f) ==
  /\ f \in BagToSet(distribute)
  /\ f.pc = "service"
  /\ \E g \in BagToSet(distribute') :
       /\ g.pc = "insertPending"
       /\ g.projectId = f.projectId
       /\ CopiesIn(g, distribute') > CopiesIn(g, distribute)

\* C22: distributeProfit validates the five readiness conditions again
\* inside its transaction: the service goes on only for a project that
\* exists, is not completed, is not cancelled, has available_tokens = 0 and
\* has an active holder, so a project cancelled after the handler's check
\* is not distributed.
C22_ServiceRevalidates ==
  [][\A f \in BagToSet(distribute) :
       ServiceGoesOn(f) => OrderedChecks(f.projectId).ready]_vars

\* the user profit records that frame f has written
RowsOf(f) == {f.profitRows[i] : i \in DOMAIN f.profitRows}

\* the call of frame f commits in this step
CommitsDistribution(f) ==
  /\ f \in BagToSet(distribute)
  /\ f.pc = "commit"
  /\ distribute' = distribute (-) One(f)
  /\ response' = Response(200, "Profit distributed successfully", "")

\* every user profit record, committed or written by a call in flight,
\* references a distribution record that is 'completed' with a ledger
\* handle: a committed one, or the one the writing call has updated
CreditsReferenceCompleted ==
  /\ \A r \in BagToSet(user_profit_records) :
       \E d \in profit_distributions :
         /\ d.id = r.distribution_id
         /\ d.status = "completed"
         /\ d.blockchain_hash # 0
  /\ \A f \in BagToSet(distribute) :
       f.pc \in {"insertUserProfit", "updateProject", "commit"} =>
         \A r \in RowsOf(f) :
           \/ r.distribution_id = f.updatedId /\ f.hash # 0
           \/ \E d \in profit_distributions :
                /\ d.id = r.distribution_id
                /\ d.status = "completed"
                /\ d.blockchain_hash # 0

\* the call of frame f commits exactly one record for each holder of an
\* active holding of its project, with the holder's summed active amount
\* and that amount times profit_per_token
OneCreditPerHolder(f) ==
  /\ Len(f.profitRows) = Cardinality(Holders(tokens, f.projectId))
  /\ \A u \in Holders(tokens, f.projectId) :
       \E r \in RowsOf(f) :
         /\ r.user_id = u
         /\ r.token_amount = HolderAmount(tokens, f.projectId, u)
         /\ DEq(r.profit_amount, DMulInt(f.profitPerToken, r.token_amount))

\* C23: user profit records are written only after the distribution record
\* they reference is 'completed' with its ledger handle and never reference
\* a 'pending' record in a committed state; a distributeProfit that
\* succeeds writes exactly one record per holder of active holdings, with
\* token_amount the holder's summed active amount and profit_amount =
\* token_amount x profit_per_token.
C23_CreditsAfterCompletion ==
  /\ []CreditsReferenceCompleted
  /\ [][\A f \in BagToSet(distribute) :
          CommitsDistribution(f) => OneCreditPerHolder(f)]_vars

\* the purchaseTokens call of frame f commits in this step
CommitsPurchase(f) ==
  /\ f \in BagToSet(purchase)
  /\ f.pc = "commit"
  /\ purchase' = purchase (-) One(f)
  /\ response' = Response(201, "Tokens purchased successfully", "")

\* C24: a purchaseTokens that succeeds commits in one step exactly one new
\* 'active' holding of the buyer with the amount asked, the decrease of the
\* project's available_tokens by that amount, and one 'purchase'
\* transaction record, 'completed', of total_value amount x token_price
\* from the project's admin to the buyer; every other holding and project
\* is unchanged, a purchaseTokens that fails commits none of the three, and
\* no other step writes a holding or a transaction record.
C24_PurchaseCommitsTogether ==
  [][/\ \A f \in BagToSet(purchase) :
          CommitsPurchase(f) =>
            /\ \E r \in BagToSet(tokens') :
                 /\ tokens' = tokens (+) One(r)
                 /\ r.user_id = f.user
                 /\ r.project_id = f.project_id
                 /\ r.amount = f.amount
                 /\ r.status = "active"
            /\ projects' =
                 [projects EXCEPT ![f.project_id].available_tokens =
                                     @ - f.amount]
            /\ \E t \in BagToSet(transactions') :
                 /\ transactions' = transactions (+) One(t)
                 /\ t.transaction_type = "purchase"
                 /\ t.status = "completed"
                 /\ t.project_id = f.project_id
                 /\ t.token_amount = f.amount
                 /\ t.total_value =
                      f.amount * projects[f.project_id].token_price
                 /\ t.to_user_id = f.user
                 /\ t.from_user_id = projects[f.project_id].admin_id
            /\ UNCHANGED <<profit_distributions, user_profit_records>>
     /\ \A f \in BagToSet(purchase) :
          (purchase' = purchase (-) One(f) /\ response'.status = 500) =>
            UNCHANGED dbVars
     /\ (tokens' # tokens \/ transactions' # transactions) =>
          \E f \in BagToSet(purchase) : CommitsPurchase(f)]_vars

\* two buyers hold tokens of a project and the purchase of the second one
\* has just committed
C24_Witness ==
  /\ response = Response(201, "Tokens purchased successfully", "")
  /\ \E p \in DOMAIN projects :
       /\ Cardinality(Holders(tokens, p)) = 2
       /\ BagCardinality(transactions) = 2
       /\ projects[p].available_tokens = 0

\* C25: a distributeProfit call marks 'completed', with its ledger handle,
\* the distribution record that it inserted itself and links its user
\* profit records to that record, never to the record of another call for
\* the same project; a committed 'completed' record carries a ledger handle
\* and a committed 'pending' record carries none.
C25_OwnRecordOnly ==
  /\ \A f \in BagToSet(distribute) :
       f.pc \in {"insertUserProfit", "updateProject", "commit"} =>
         /\ f.updatedId = f.insertedId
         /\ \A r \in RowsOf(f) : r.distribution_id = f.insertedId
  /\ \A d \in profit_distributions :
       /\ d.status = "completed" =>
            /\ d.blockchain_hash \in DOMAIN ledger
            /\ ledger[d.blockchain_hash].kind = "dividend"
            /\ ledger[d.blockchain_hash].projectId = d.project_id
       /\ d.status = "pending" => d.blockchain_hash = 0

\* C26: every exit path of purchaseTokens taken after beginTransaction ends
\* the transaction with a commit or a rollback before the connection is
\* released: no connection is in the pool with a transaction open.
C26_NoOpenTransactionReleased == openReleased = 0

\* C27: whenever distributeProfit has computed profitPerToken, the
\* totalUserTokens it divided by, the sum of the active holdings of the
\* project, is the project's total_tokens, and profitPerToken is
\* userTotalShare / total_tokens.
C27_DividesByTotalTokens ==
  \A f \in BagToSet(distribute) :
    f.pc # "service" =>
      /\ f.totalUserTokens = projects[f.projectId].total_tokens
      /\ DEq(f.profitPerToken,
             ProfitPerToken(f.userTotalShare,
                            projects[f.projectId].total_tokens))

\* C28: every record that purchaseTokens or distributeProfit has written on
\* the external ledger has a committed local counterpart, a holding or a
\* 'completed' distribution record with its handle, or belongs to a call
\* still in flight: no ledger record is left by a call whose transaction
\* was rolled back.
C28_LedgerHasLocalCounterpart ==
  \A i \in DOMAIN ledger :
    IF ledger[i].kind = "token"
    THEN \/ \E r \in BagToSet(tokens) : r.blockchain_hash = i
         \/ \E f \in BagToSet(purchase) : f.hash = i
    ELSE \/ \E d \in profit_distributions :
              d.status = "completed" /\ d.blockchain_hash = i
         \/ \E f \in BagToSet(distribute) :
              f.pc # "service" /\ f.hash = i

(***************************************************************************)
(* TransactionController.approveTransaction and rejectTransaction, on a    *)
(* transactions table that holds transactions waiting for the admin's      *)
(* decision.  Each handler runs two autocommit statements on the pool: the *)
(* SELECT of the 'pending' row, then the UPDATE.                           *)
(***************************************************************************)
TransactionIds == {"T1", "T2"}

UnknownTransactionId == "TX"

AllTransactionIds == TransactionIds \cup {UnknownTransactionId}

\* a transfer that waits for the decision of the admin
PendingTransaction(t) ==
  [transaction_id |-> t, from_user_id |-> UserOrder[1],
   to_user_id |-> UserOrder[2], project_id |-> "P1", token_amount |-> 1,
   total_value |-> TokenPrice, transaction_type |-> "transfer",
   status |-> "pending", blockchain_hash |-> 0]

InitReview ==
  /\ projects = [q \in ProjectIds |-> SoldOutProject(1)]
  /\ tokens = One(TokenRow(SoldFrame("P1", UserOrder[1], 1, 1)))
  /\ transactions = SetToBag({PendingTransaction(t) : t \in TransactionIds})
  /\ profit_distributions = {}
  /\ user_profit_records = EmptyBag
  /\ nextDistId = 1
  /\ ledger = <<[kind |-> "token", projectId |-> "P1", amount |-> 1]>>
  /\ purchase = EmptyBag
  /\ distribute = EmptyBag
  /\ requests = 0
  /\ response = NoResponse
  /\ openReleased = 0
  /\ review = EmptyBag

\* SELECT * FROM transactions WHERE transaction_id = ? AND status = "pending"
SelectPendingTransaction(t) ==
  {r \in BagToSet(transactions) :
     r.transaction_id = t /\ r.status = "pending"}

\* UPDATE transactions SET status = ? WHERE transaction_id = ?
SetTransactionStatus(tx, t, status) ==
  SetToBag({IF r.transaction_id = t THEN [r EXCEPT !.status = status] ELSE r :
              r \in BagToSet(tx)})

\* the status of transaction t, "none" when there is no such row
TransactionStatus(tx, t) ==
  IF \E r \in BagToSet(tx) : r.transaction_id = t
  THEN (CHOOSE r \in BagToSet(tx) : r.transaction_id = t).status
  ELSE "none"

\* approveTransaction up to its SELECT: 404 when no 'pending' row is found
ApproveTransactionStart(t) ==
  /\ Receive
  /\ response' =
       IF SelectPendingTransaction(t) = {}
       THEN Response(404, "Transaction not found or not in pending status", "")
       ELSE response
  /\ review' =
       IF SelectPendingTransaction(t) = {} THEN review
       ELSE review (+) One([pc |-> "update", kind |-> "approve",
                            transactionId |-> t])
  /\ UNCHANGED <<dbVars, nextDistId, ledger, purchase, distribute,
                 openReleased>>

\* rejectTransaction up to its SELECT: 404 when no 'pending' row is found
RejectTransactionStart(t) ==
  /\ Receive
  /\ response' =
       IF SelectPendingTransaction(t) = {}
       THEN Response(404, "Transaction not found or not in pending status", "")
       ELSE response
  /\ review' =
       IF SelectPendingTransaction(t) = {} THEN review
       ELSE review (+) One([pc |-> "update", kind |-> "reject",
                            transactionId |-> t])
  /\ UNCHANGED <<dbVars, nextDistId, ledger, purchase, distribute,
                 openReleased>>

\* approveTransaction: the UPDATE and the response
ApproveTransactionUpdate(f) ==
  /\ f \in BagToSet(review)
  /\ f.kind = "approve"
  /\ transactions' =
       SetTransactionStatus(transactions, f.transactionId, "approved")
  /\ review' = review (-) One(f)
  /\ response' = Response(200, "Transaction approved successfully", "")
  /\ UNCHANGED <<projects, tokens, profit_distributions, user_profit_records,
                 nextDistId, ledger, purchase, distribute, requests,
                 openReleased>>

\* rejectTransaction: the UPDATE and the response
RejectTransactionUpdate(f) ==
  /\ f \in BagToSet(review)
  /\ f.kind = "reject"
  /\ transactions' =
       SetTransactionStatus(transactions, f.transactionId, "rejected")
  /\ review' = review (-) One(f)
  /\ response' = Response(200, "Transaction rejected successfully", "")
  /\ UNCHANGED <<projects, tokens, profit_distributions, user_profit_records,
                 nextDistId, ledger, purchase, distribute, requests,
                 openReleased>>

\* the UPDATE throws: the catch answers 500
ReviewFail(f) ==
  /\ f \in BagToSet(review)
  /\ review' = review (-) One(f)
  /\ response' =
       Response(500, IF f.kind = "approve" THEN "Error approving transaction"
                     ELSE "Error rejecting transaction", "")
  /\ UNCHANGED <<dbVars, nextDistId, ledger, purchase, distribute, requests,
                 openReleased>>

NextReview ==
  \/ \E t \in AllTransactionIds : ApproveTransactionStart(t)
  \/ \E t \in AllTransactionIds : RejectTransactionStart(t)
  \/ \E f \in BagToSet(review) : ApproveTransactionUpdate(f)
  \/ \E f \in BagToSet(review) : RejectTransactionUpdate(f)
  \/ \E f \in BagToSet(review) : ReviewFail(f)

SpecReview == InitReview /\ [][NextReview]_vars

\* the approve or reject call of frame f answers with success in this step
ReviewSucceeds(f) ==
  /\ f \in BagToSet(review)
  /\ review' = review (-) One(f)
  /\ response'.status = 200

C30_OwnerOnly ==
  [][\A f \in BagToSet(distribute) :
       CommitsDistribution(f) =>
         isProjectOwnedByAdmin(f.projectId, f.adminId)]_vars

====
